---- MODULE Spec2Model ----
(***************************************************************************)
(* Model of the DataTable component                                        *)
(* (Frontend/src/components/DataTable/DataTable.tsx): its sort state, its  *)
(* selection set, the derived (sorted) row sequence and the notifications  *)
(* it sends to its owner; and of the InputField component                  *)
(* (Frontend/src/components/InputField/InputField.tsx): its value, its     *)
(* password visibility and the changes it reports to its owner.            *)
(*                                                                         *)
(* JavaScript values are tagged records, so that numbers, strings, null    *)
(* and undefined can live in one column.  Strings are sequences of one-    *)
(* character strings, so that String(x) and localeCompare are computed.    *)
(***************************************************************************)
EXTENDS Integers, Sequences, FiniteSets, TLC

VARIABLES data, engine, sortState, sortedData, selectedRows, reported, lastOp, streak,
          props, clicked, inputField

vars == <<data, engine, sortState, sortedData, selectedRows, reported, lastOp, streak,
          props, clicked, inputField>>

(***************************************************************************)
(* Bounds of the model.                                                    *)
(***************************************************************************)
MaxLen == 2

MaxSortLen == 4

(***************************************************************************)
(* JavaScript values.                                                      *)
(***************************************************************************)
Null == [t |-> "null", n |-> 0, s |-> <<>>]

Undefined == [t |-> "undefined", n |-> 0, s |-> <<>>]

Num(n) == [t |-> "num", n |-> n, s |-> <<>>]

Str(s) == [t |-> "str", n |-> 0, s |-> s]

IsNullish(v) == v.t \in {"null", "undefined"}

Digits == <<"0", "1", "2", "3", "4", "5", "6", "7", "8", "9">>

RECURSIVE NatToString(_)
NatToString(n) ==
    IF n < 10 THEN <<Digits[n + 1]>>
    ELSE NatToString(n \div 10) \o <<Digits[(n % 10) + 1]>>

\* String(value) for the values of the model: decimal digits for a number,
\* the string itself for a string.
JsString(v) ==
    CASE v.t = "str" -> v.s
      [] v.t = "num" -> IF v.n < 0 THEN <<"-">> \o NatToString(-v.n)
                                    ELSE NatToString(v.n)
      [] v.t = "null" -> <<"n", "u", "l", "l">>
      [] OTHER -> <<"u", "n", "d", "e", "f", "i", "n", "e", "d">>

(***************************************************************************)
(* String.prototype.localeCompare on alphanumeric strings: the collation   *)
(* compares primary weights first (digits before letters, letters without  *)
(* regard to case) and, when the primary weights of the whole strings      *)
(* agree, the tertiary weights (lower case before upper case).             *)
(***************************************************************************)
LowerCase == <<"a", "b", "c", "d", "e", "f", "g", "h", "i", "j", "k", "l", "m",
               "n", "o", "p", "q", "r", "s", "t", "u", "v", "w", "x", "y", "z">>

UpperCase == <<"A", "B", "C", "D", "E", "F", "G", "H", "I", "J", "K", "L", "M",
               "N", "O", "P", "Q", "R", "S", "T", "U", "V", "W", "X", "Y", "Z">>

IndexIn(seq, c) == CHOOSE i \in 1..Len(seq) : seq[i] = c

IsIn(seq, c) == \E i \in 1..Len(seq) : seq[i] = c

Alphabet == {Digits[i] : i \in 1..Len(Digits)}
                \cup {LowerCase[i] : i \in 1..Len(LowerCase)}
                \cup {UpperCase[i] : i \in 1..Len(UpperCase)}

PrimaryWeights ==
    [c \in Alphabet |->
        IF IsIn(Digits, c) THEN IndexIn(Digits, c)
        ELSE IF IsIn(LowerCase, c) THEN Len(Digits) + IndexIn(LowerCase, c)
        ELSE Len(Digits) + IndexIn(UpperCase, c)]

TertiaryWeights == [c \in Alphabet |-> IF IsIn(UpperCase, c) THEN 1 ELSE 0]

PrimaryWeight(c) == PrimaryWeights[c]

TertiaryWeight(c) == TertiaryWeights[c]

RECURSIVE LexCompare(_, _)
LexCompare(x, y) ==
    IF Len(x) = 0 THEN (IF Len(y) = 0 THEN 0 ELSE -1)
    ELSE IF Len(y) = 0 THEN 1
    ELSE IF Head(x) < Head(y) THEN -1
    ELSE IF Head(x) > Head(y) THEN 1
    ELSE LexCompare(Tail(x), Tail(y))

LocaleCompare(a, b) ==
    LET pa == [i \in 1..Len(a) |-> PrimaryWeight(a[i])]
        pb == [i \in 1..Len(b) |-> PrimaryWeight(b[i])]
        ta == [i \in 1..Len(a) |-> TertiaryWeight(a[i])]
        tb == [i \in 1..Len(b) |-> TertiaryWeight(b[i])]
        primary == LexCompare(pa, pb)
    IN  IF primary # 0 THEN primary ELSE LexCompare(ta, tb)

(***************************************************************************)
(* Records and column descriptors.                                         *)
(***************************************************************************)
\* record[field]: undefined when the record has no such attribute.
Field(record, field) ==
    IF field \in DOMAIN record THEN record[field] ELSE Undefined

\* render tells whether the column has a custom renderer.
Columns ==
    << [key |-> "name",  dataIndex |-> "name",  sortable |-> TRUE,  render |-> TRUE],
       [key |-> "age",   dataIndex |-> "age",   sortable |-> TRUE,  render |-> FALSE],
       [key |-> "email", dataIndex |-> "email", sortable |-> FALSE, render |-> FALSE] >>

ColumnKeys == {Columns[i].key : i \in 1..Len(Columns)}

NoKey == "null"

NoDirection == "null"

HasColumn(columnKey) == \E i \in 1..Len(Columns) : Columns[i].key = columnKey

\* columns.find(col => col.key === columnKey): the first match.
FindColumn(columnKey) ==
    Columns[CHOOSE i \in 1..Len(Columns) :
                /\ Columns[i].key = columnKey
                /\ \A j \in 1..(i - 1) : Columns[j].key # columnKey]

(***************************************************************************)
(* The comparator handed to Array.prototype.sort.  It returns the number   *)
(* the callback returns.                                                   *)
(***************************************************************************)
\* Mutant: the direction is ignored.
Directed_Ignored(comparison, direction) == comparison

Directed(comparison, direction) ==
    IF direction = "asc" THEN comparison ELSE -comparison

\* Mutant: a null value is ordered by the direction, like any other value.
Comparator_NullsFollowDirection(a, b, column, direction) ==
    LET aValue == Field(a, column.dataIndex)
        bValue == Field(b, column.dataIndex)
    IN  IF IsNullish(aValue) THEN Directed(1, direction)
        ELSE IF IsNullish(bValue) THEN Directed(-1, direction)
        ELSE IF aValue.t = "str" /\ bValue.t = "str"
             THEN Directed(LocaleCompare(aValue.s, bValue.s), direction)
        ELSE IF aValue.t = "num" /\ bValue.t = "num"
             THEN Directed(aValue.n - bValue.n, direction)
        ELSE Directed(LocaleCompare(JsString(aValue), JsString(bValue)), direction)

\* Mutant: no numeric branch, numbers are compared as strings.
Comparator_NumbersAsStrings(a, b, column, direction) ==
    LET aValue == Field(a, column.dataIndex)
        bValue == Field(b, column.dataIndex)
    IN  IF IsNullish(aValue) THEN 1
        ELSE IF IsNullish(bValue) THEN -1
        ELSE Directed(LocaleCompare(JsString(aValue), JsString(bValue)), direction)

Comparator(a, b, column, direction) ==
    LET aValue == Field(a, column.dataIndex)
        bValue == Field(b, column.dataIndex)
    IN  IF IsNullish(aValue) THEN 1
        ELSE IF IsNullish(bValue) THEN -1
        ELSE IF aValue.t = "str" /\ bValue.t = "str"
             THEN Directed(LocaleCompare(aValue.s, bValue.s), direction)
        ELSE IF aValue.t = "num" /\ bValue.t = "num"
             THEN Directed(aValue.n - bValue.n, direction)
        ELSE Directed(LocaleCompare(JsString(aValue), JsString(bValue)), direction)

(***************************************************************************)
(* Array.prototype.sort.  The result of a sort whose comparator is not a   *)
(* consistent comparison (this one never returns 0 for two null values,    *)
(* and is not transitive on a column mixing numbers and strings) depends   *)
(* on the engine's algorithm, so two algorithms are modelled and the       *)
(* engine is chosen at start:                                              *)
(*   "timsort"   : run detection followed by binary insertion, calling     *)
(*                 comparefn(pivot, element);                              *)
(*   "insertion" : linear insertion from the right, calling                *)
(*                 comparefn(element, pivot).                              *)
(* Both are stable for a consistent comparator.                            *)
(***************************************************************************)
Engines == {"timsort", "insertion"}

ReverseRange(arr, from, to) ==
    [i \in 1..Len(arr) |-> IF i >= from /\ i <= to THEN arr[from + to - i] ELSE arr[i]]

RECURSIVE CountRun(_, _, _, _, _, _)
CountRun(arr, idx, runLength, isDescending, column, direction) ==
    IF idx > Len(arr) THEN runLength
    ELSE LET order == Comparator(arr[idx], arr[idx - 1], column, direction)
         IN  IF (isDescending /\ order >= 0) \/ (~isDescending /\ order < 0)
             THEN runLength
             ELSE CountRun(arr, idx + 1, runLength + 1, isDescending, column, direction)

CountAndMakeRun(arr, column, direction) ==
    IF Len(arr) < 2 THEN [runLength |-> Len(arr), arr |-> arr]
    ELSE LET isDescending == Comparator(arr[2], arr[1], column, direction) < 0
             runLength == CountRun(arr, 3, 2, isDescending, column, direction)
         IN  [runLength |-> runLength,
              arr |-> IF isDescending THEN ReverseRange(arr, 1, runLength) ELSE arr]

\* The pivot arr[start] moves to position pos; arr[pos..start-1] shift right.
MoveTo(arr, start, pos) ==
    [i \in 1..Len(arr) |->
        IF i = pos THEN arr[start]
        ELSE IF i > pos /\ i <= start THEN arr[i - 1]
        ELSE arr[i]]

RECURSIVE BinarySearch(_, _, _, _, _, _)
BinarySearch(arr, pivot, left, right, column, direction) ==
    IF left >= right THEN left
    ELSE LET mid == left + ((right - left) \div 2)
         IN  IF Comparator(pivot, arr[mid], column, direction) < 0
             THEN BinarySearch(arr, pivot, left, mid, column, direction)
             ELSE BinarySearch(arr, pivot, mid + 1, right, column, direction)

RECURSIVE BinaryInsertionSort(_, _, _, _)
BinaryInsertionSort(arr, start, column, direction) ==
    IF start > Len(arr) THEN arr
    ELSE LET pos == BinarySearch(arr, arr[start], 1, start, column, direction)
         IN  BinaryInsertionSort(MoveTo(arr, start, pos), start + 1, column, direction)

TimSort(arr, column, direction) ==
    LET run == CountAndMakeRun(arr, column, direction)
    IN  BinaryInsertionSort(run.arr, run.runLength + 1, column, direction)

RECURSIVE LinearSearch(_, _, _, _, _)
LinearSearch(arr, pivot, j, column, direction) ==
    IF j >= 1 /\ Comparator(arr[j], pivot, column, direction) > 0
    THEN LinearSearch(arr, pivot, j - 1, column, direction)
    ELSE j + 1

RECURSIVE InsertionSort(_, _, _, _)
InsertionSort(arr, start, column, direction) ==
    IF start > Len(arr) THEN arr
    ELSE LET pos == LinearSearch(arr, arr[start], start - 1, column, direction)
         IN  InsertionSort(MoveTo(arr, start, pos), start + 1, column, direction)

ArraySort(arr, column, direction, eng) ==
    IF eng = "timsort" THEN TimSort(arr, column, direction)
    ELSE InsertionSort(arr, 2, column, direction)

(***************************************************************************)
(* Values derived in a render.                                             *)
(***************************************************************************)
\* Mutant: the rows without a sort value are left out of a sorted display.
SortedDataOf_DropsMissing(rows, state, eng) ==
    IF state.key = NoKey \/ state.direction = NoDirection THEN rows
    ELSE IF ~HasColumn(state.key) THEN rows
    ELSE ArraySort(SelectSeq(rows, LAMBDA r :
                       ~IsNullish(Field(r, FindColumn(state.key).dataIndex))),
                   FindColumn(state.key), state.direction, eng)

\* The body of the useMemo that yields sortedData.
SortedDataOf(rows, state, eng) ==
    IF state.key = NoKey \/ state.direction = NoDirection THEN rows
    ELSE IF ~HasColumn(state.key) THEN rows
    ELSE ArraySort(rows, FindColumn(state.key), state.direction, eng)

\* What a column's renderer returns: a node made from the three arguments
\* it is called with.
RenderOutput(value, record, index) ==
    [node |-> "custom", value |-> value, record |-> record, index |-> index]

\* Mutant: String(value), which spells out null and undefined.
renderCellContent_StringOfValue(column, record, index) ==
    LET value == Field(record, column.dataIndex)
    IN  IF column.render THEN RenderOutput(value, record, index)
        ELSE Str(JsString(value))

\* value?.toString() || '': the text of a cell without a renderer.
renderCellContent(column, record, index) ==
    LET value == Field(record, column.dataIndex)
    IN  IF column.render THEN RenderOutput(value, record, index)
        ELSE IF IsNullish(value) THEN Str(<<>>)
        ELSE Str(JsString(value))

\* The cells of the table body: one row of cells for each displayed row.
Cells(rows) ==
    [i \in 1..Len(rows) |->
        [c \in 1..Len(Columns) |-> renderCellContent(Columns[c], rows[i], i - 1)]]

\* [...data]: Array.prototype.sort sorts a copy, so the sequence the owner
\* supplied keeps its order whatever the sort state is.
\* Mutant: the input sequence itself is sorted, in place.
DataAfterSort_InPlace(rows, state, eng) == SortedDataOf(rows, state, eng)

DataAfterSort(rows, state, eng) == rows

\* The rowKey prop: the name of an attribute ('id' unless the owner names
\* another), or a function of the record.
AttributeKey(attribute) == [kind |-> "attribute", attribute |-> attribute]

FunctionKey == [kind |-> "function", attribute |-> "id"]

UserPrefix == <<"u", "s", "e", "r", "-">>

\* The rowKey function of the tests: record => `user-${record.id}`.
RowKeyFunction(record) == Str(UserPrefix \o JsString(Field(record, "id")))

\* Mutant: the identifier is the position, whatever the record holds.
getRowKey_PositionOnly(record, index) == Num(index)

\* Mutant: a missing attribute is not replaced by the position.
getRowKey_NoFallback(record, index) ==
    IF props.rowKey.kind = "function" THEN RowKeyFunction(record)
    ELSE Field(record, props.rowKey.attribute)

\* index is 0-based.
getRowKey(record, index) ==
    IF props.rowKey.kind = "function" THEN RowKeyFunction(record)
    ELSE IF IsNullish(Field(record, props.rowKey.attribute)) THEN Num(index)
    ELSE Field(record, props.rowKey.attribute)

\* The identifiers of the rows of a displayed sequence.
RowKeys(rows) == {getRowKey(rows[i], i - 1) : i \in 1..Len(rows)}

\* rows.filter((item, idx) => keep.has(getRowKey(item, idx)))
RECURSIVE FilterFrom(_, _, _)
FilterFrom(rows, keep, i) ==
    IF i > Len(rows) THEN <<>>
    ELSE (IF getRowKey(rows[i], i - 1) \in keep THEN <<rows[i]>> ELSE <<>>)
         \o FilterFrom(rows, keep, i + 1)

FilterSelected(rows, keep) == FilterFrom(rows, keep, 1)

(***************************************************************************)
(* State.  data and engine are fixed by the owner and the platform;        *)
(* sortState and selectedRows are the component's useState cells;          *)
(* sortedData is the memoised row sequence of the current render;          *)
(* reported is the argument of the most recent onRowSelect call; lastOp    *)
(* names the handler that ran last, the selection it started from and the  *)
(* number of onRowSelect calls it made; streak counts the activations of   *)
(* one column's header since the table was last unsorted; props are the    *)
(* owner's other props; clicked lists the onRowClick calls of the latest   *)
(* event; inputField is the state of an InputField.                        *)
(***************************************************************************)
Unsorted == [key |-> NoKey, direction |-> NoDirection]

NotReported == [called |-> FALSE, rows |-> <<>>]

Op(op, key, index, before, calls) ==
    [op |-> op, key |-> key, index |-> index, before |-> before, calls |-> calls]

NoStreak == [key |-> NoKey, n |-> 0]

\* The props of the table besides data and columns, as the owner passes
\* them: emptyMessage is undefined when the owner leaves it out.
DefaultProps ==
    [loading |-> FALSE, emptyMessage |-> Undefined, rowKey |-> AttributeKey("id")]

LoadingText == Str(<<"L", "o", "a", "d", "i", "n", "g", ".", ".", ".">>)

DefaultEmptyMessage ==
    Str(<<"N", "o", " ", "d", "a", "t", "a", " ",
          "a", "v", "a", "i", "l", "a", "b", "l", "e">>)

\* emptyMessage = 'No data available' in the parameter list: the default
\* stands in for a prop that is undefined.
EmptyMessageOf(emptyMessage) ==
    IF emptyMessage = Undefined THEN DefaultEmptyMessage ELSE emptyMessage

\* Mutant: the empty-data branch comes before the loading branch.
Presentation_EmptyFirst(loading, rows, emptyMessage) ==
    IF Len(rows) = 0
    THEN [kind |-> "empty", text |-> EmptyMessageOf(emptyMessage)]
    ELSE IF loading THEN [kind |-> "loading", text |-> LoadingText]
    ELSE [kind |-> "table", text |-> Str(<<>>)]

\* What the component returns: the busy placeholder, the empty-state
\* message or the table.
Presentation(loading, rows, emptyMessage) ==
    IF loading THEN [kind |-> "loading", text |-> LoadingText]
    ELSE IF Len(rows) = 0
    THEN [kind |-> "empty", text |-> EmptyMessageOf(emptyMessage)]
    ELSE [kind |-> "table", text |-> Str(<<>>)]

\* The table (headers, rows, checkboxes) is rendered only when the table is
\* not loading and data is not empty.
Rendered == ~props.loading /\ Len(data) > 0

Ids == {Null, Num(1), Num(2)}

\* The sortable attributes of the records of the selection model: sorting by
\* name and sorting by age give opposite orders.
Profiles == { [name |-> Str(<<"A", "n", "n">>), age |-> Num(10)],
              [name |-> Str(<<"B", "o", "b">>), age |-> Num(9)] }

Records == {[id |-> id, name |-> p.name, age |-> p.age] : id \in Ids, p \in Profiles}

\* Identifiers, where a record has one, are distinct; a record may lack one.
DistinctIds(rows) ==
    \A i, j \in 1..Len(rows) :
        (i # j /\ ~IsNullish(rows[i].id)) => rows[i].id # rows[j].id

\* Sort inputs: a string column with null values, letters in both cases and
\* equal values; a column mixing numbers, a string and missing values, on
\* which the comparator is not transitive (9 < 10 as numbers, "10" < "1a"
\* and "1a" < "9" as strings).
SortProfiles == { [name |-> Null,                    age |-> Undefined],
                  [name |-> Str(<<"A", "n", "n">>),  age |-> Num(9)],
                  [name |-> Str(<<"B", "o", "b">>),  age |-> Num(10)],
                  [name |-> Str(<<"b", "o", "b">>),  age |-> Str(<<"1", "a">>)] }

\* The record sequence with the attributes f[1], ..., f[n], each record
\* carrying its input position as identifier.
SortInput(f) ==
    [i \in DOMAIN f |-> [id |-> Num(i), name |-> f[i].name, age |-> f[i].age]]

\* An InputField: the props the owner passes (value is undefined for an
\* uncontrolled field; helperText and errorMessage are undefined unless the
\* owner sets them), the useState cells inputValue and showPassword, and
\* the handler that ran last with the values it reported through onChange.
InputFieldOf(value, type, showClearButton, loading, disabled) ==
    [value |-> value, type |-> type, showClearButton |-> showClearButton,
     loading |-> loading, disabled |-> disabled,
     inputValue |-> IF value.t = "str" /\ Len(value.s) > 0 THEN value ELSE Str(<<>>),
     showPassword |-> FALSE,
     helperText |-> Undefined, errorMessage |-> Undefined,
     op |-> "init", changes |-> <<>>]

DefaultField == InputFieldOf(Undefined, "text", FALSE, FALSE, FALSE)

InitComponent ==
    /\ engine \in Engines
    /\ sortState = Unsorted
    /\ sortedData = SortedDataOf(data, Unsorted, engine)
    /\ selectedRows = {}
    /\ reported = NotReported
    /\ lastOp = Op("init", NoKey, -1, {}, 0)
    /\ streak = NoStreak
    /\ clicked = <<>>

Init ==
    /\ \E n \in 0..MaxLen : \E rows \in [1..n -> Records] :
          /\ DistinctIds(rows)
          /\ data = rows
    /\ props = DefaultProps
    /\ InitComponent
    /\ inputField = DefaultField

InitSort ==
    /\ \E n \in 0..MaxSortLen : \E f \in [1..n -> SortProfiles] : data = SortInput(f)
    /\ props = DefaultProps
    /\ InitComponent
    /\ inputField = DefaultField

(***************************************************************************)
(* handleSort                                                              *)
(***************************************************************************)
\* Mutant: ascending goes straight back to unsorted.
NextSortState_SkipsDescending(prevState, columnKey) ==
    IF prevState.key = columnKey /\ prevState.direction = "asc"
    THEN [key |-> NoKey, direction |-> NoDirection]
    ELSE [key |-> columnKey, direction |-> "asc"]

\* Mutant: descending goes back to ascending, never to unsorted.
NextSortState_NoReset(prevState, columnKey) ==
    IF prevState.key = columnKey /\ prevState.direction = "asc"
    THEN [key |-> columnKey, direction |-> "desc"]
    ELSE [key |-> columnKey, direction |-> "asc"]

\* Mutant: after descending the column key is kept, without a direction.
NextSortState_KeepsKey(prevState, columnKey) ==
    IF prevState.key = columnKey /\ prevState.direction = "asc"
    THEN [key |-> columnKey, direction |-> "desc"]
    ELSE IF prevState.key = columnKey /\ prevState.direction = "desc"
    THEN [key |-> columnKey, direction |-> NoDirection]
    ELSE [key |-> columnKey, direction |-> "asc"]

\* Mutant: another column takes over the direction of the sorted one.
NextSortState_KeepsDirection(prevState, columnKey) ==
    IF prevState.key = columnKey /\ prevState.direction = "asc"
    THEN [key |-> columnKey, direction |-> "desc"]
    ELSE IF prevState.key = columnKey /\ prevState.direction = "desc"
    THEN Unsorted
    ELSE IF prevState.direction = "desc"
    THEN [key |-> columnKey, direction |-> "desc"]
    ELSE [key |-> columnKey, direction |-> "asc"]

NextSortState(prevState, columnKey) ==
    IF prevState.key = columnKey /\ prevState.direction = "asc"
    THEN [key |-> columnKey, direction |-> "desc"]
    ELSE IF prevState.key = columnKey /\ prevState.direction = "desc"
    THEN Unsorted
    ELSE [key |-> columnKey, direction |-> "asc"]

NextStreak(columnKey) ==
    IF sortState.direction = NoDirection THEN [key |-> columnKey, n |-> 1]
    ELSE IF streak.key = columnKey /\ streak.n \in {1, 2}
    THEN [key |-> columnKey, n |-> streak.n + 1]
    ELSE NoStreak

\* Mutant: the memoised rows are those of the sort state before the click.
handleSort_StaleMemo(columnKey) ==
    /\ Rendered
    /\ lastOp' = Op("handleSort", columnKey, -1, {}, 0)
    /\ IF HasColumn(columnKey) /\ FindColumn(columnKey).sortable
       THEN /\ sortState' = NextSortState(sortState, columnKey)
            /\ sortedData' = SortedDataOf(data, sortState, engine)
            /\ streak' = NextStreak(columnKey)
       ELSE UNCHANGED <<sortState, sortedData, streak>>
    /\ data' = DataAfterSort(data, sortState', engine)
    /\ clicked' = <<>>
    /\ UNCHANGED <<engine, selectedRows, reported, props, inputField>>

\* Mutant: the column's sortable flag is not looked at.
handleSort_AnyColumn(columnKey) ==
    /\ Rendered
    /\ lastOp' = Op("handleSort", columnKey, -1, {}, 0)
    /\ IF HasColumn(columnKey)
       THEN /\ sortState' = NextSortState(sortState, columnKey)
            /\ sortedData' = SortedDataOf(data, sortState', engine)
            /\ streak' = NextStreak(columnKey)
       ELSE UNCHANGED <<sortState, sortedData, streak>>
    /\ data' = DataAfterSort(data, sortState', engine)
    /\ clicked' = <<>>
    /\ UNCHANGED <<engine, selectedRows, reported, props, inputField>>

handleSort(columnKey) ==
    /\ Rendered
    /\ lastOp' = Op("handleSort", columnKey, -1, {}, 0)
    /\ IF HasColumn(columnKey) /\ FindColumn(columnKey).sortable
       THEN /\ sortState' = NextSortState(sortState, columnKey)
            /\ sortedData' = SortedDataOf(data, sortState', engine)
            /\ streak' = NextStreak(columnKey)
       ELSE UNCHANGED <<sortState, sortedData, streak>>
    /\ data' = DataAfterSort(data, sortState', engine)
    /\ clicked' = <<>>
    /\ UNCHANGED <<engine, selectedRows, reported, props, inputField>>

(***************************************************************************)
(* handleSelectAll                                                         *)
(***************************************************************************)
handleSelectAll ==
    /\ Rendered
    /\ IF Cardinality(selectedRows) = Len(sortedData)
       THEN /\ selectedRows' = {}
            /\ reported' = [called |-> TRUE, rows |-> <<>>]
       ELSE /\ selectedRows' = RowKeys(sortedData)
            /\ reported' = [called |-> TRUE, rows |-> sortedData]
    /\ lastOp' = Op("handleSelectAll", NoKey, -1, selectedRows, 1)
    /\ clicked' = <<>>
    /\ UNCHANGED <<data, engine, sortState, sortedData, streak, props, inputField>>

(***************************************************************************)
(* handleRowSelect(record, index), for the row displayed at position i.    *)
(* The click that changes a row's checkbox bubbles to the row, whose       *)
(* onClick runs handleRowClick with the checkbox as the event target.      *)
(***************************************************************************)
\* The onRowClick calls of handleRowClick(record, index, event): none when
\* the event target is inside a checkbox, else one with the record and index.
\* Mutant: the event target is not looked at.
RowClickCalls_IgnoresTarget(record, index, onCheckbox) ==
    <<[record |-> record, index |-> index]>>

RowClickCalls(record, index, onCheckbox) ==
    IF onCheckbox THEN <<>> ELSE <<[record |-> record, index |-> index]>>

\* Mutant: a key is only ever added.
ToggleKey_AddOnly(selected, key) == selected \cup {key}

ToggleKey(selected, key) ==
    IF key \in selected THEN selected \ {key} ELSE selected \cup {key}

\* Mutant: the report is filtered from the input sequence, not the sorted one.
handleRowSelect_FiltersInput(i) ==
    /\ Rendered
    /\ i \in 1..Len(sortedData)
    /\ LET key == getRowKey(sortedData[i], i - 1)
           newSelectedRows == ToggleKey(selectedRows, key)
       IN  /\ selectedRows' = newSelectedRows
           /\ reported' = [called |-> TRUE,
                           rows |-> FilterSelected(data, newSelectedRows)]
    /\ lastOp' = Op("handleRowSelect", NoKey, i - 1, selectedRows, 1)
    /\ clicked' = RowClickCalls(sortedData[i], i - 1, TRUE)
    /\ UNCHANGED <<data, engine, sortState, sortedData, streak, props, inputField>>

\* Mutant: the report is filtered by the selection of the previous render.
handleRowSelect_StaleSelection(i) ==
    /\ Rendered
    /\ i \in 1..Len(sortedData)
    /\ LET key == getRowKey(sortedData[i], i - 1)
           newSelectedRows == ToggleKey(selectedRows, key)
       IN  /\ selectedRows' = newSelectedRows
           /\ reported' = [called |-> TRUE,
                           rows |-> FilterSelected(sortedData, selectedRows)]
    /\ lastOp' = Op("handleRowSelect", NoKey, i - 1, selectedRows, 1)
    /\ clicked' = RowClickCalls(sortedData[i], i - 1, TRUE)
    /\ UNCHANGED <<data, engine, sortState, sortedData, streak, props, inputField>>

handleRowSelect(i) ==
    /\ Rendered
    /\ i \in 1..Len(sortedData)
    /\ LET key == getRowKey(sortedData[i], i - 1)
           newSelectedRows == ToggleKey(selectedRows, key)
       IN  /\ selectedRows' = newSelectedRows
           /\ reported' = [called |-> TRUE,
                           rows |-> FilterSelected(sortedData, newSelectedRows)]
    /\ lastOp' = Op("handleRowSelect", NoKey, i - 1, selectedRows, 1)
    /\ clicked' = RowClickCalls(sortedData[i], i - 1, TRUE)
    /\ UNCHANGED <<data, engine, sortState, sortedData, streak, props, inputField>>

(***************************************************************************)
(* handleRowClick(record, index, event), for a click on the row displayed  *)
(* at position i that does not originate on the row's checkbox.            *)
(***************************************************************************)
handleRowClick(i) ==
    /\ Rendered
    /\ i \in 1..Len(sortedData)
    /\ clicked' = RowClickCalls(sortedData[i], i - 1, FALSE)
    /\ lastOp' = Op("handleRowClick", NoKey, i - 1, selectedRows, 0)
    /\ UNCHANGED <<data, engine, sortState, sortedData, selectedRows, reported,
                   streak, props, inputField>>

Next ==
    \/ \E columnKey \in ColumnKeys : handleSort(columnKey)
    \/ handleSelectAll
    \/ \E i \in 1..MaxLen : handleRowSelect(i)
    \/ \E i \in 1..MaxLen : handleRowClick(i)

Spec == Init /\ [][Next]_vars

NextSort == \E columnKey \in ColumnKeys : handleSort(columnKey)

SpecSort == InitSort /\ [][NextSort]_vars


(***************************************************************************)
(* The table under an owner that picks the loading and emptyMessage props  *)
(* and turns loading on and off (the refresh button of the stories).       *)
(***************************************************************************)
EmptyMessages == {Undefined, Str(<<"N", "o", "n", "e">>)}

setLoading(loading) ==
    /\ loading # props.loading
    /\ props' = [props EXCEPT !.loading = loading]
    /\ lastOp' = Op("setLoading", NoKey, -1, selectedRows, 0)
    /\ clicked' = <<>>
    /\ UNCHANGED <<data, engine, sortState, sortedData, selectedRows, reported,
                   streak, inputField>>

InitView ==
    /\ \E n \in 0..MaxLen : \E rows \in [1..n -> Records] :
          /\ DistinctIds(rows)
          /\ data = rows
    /\ \E loading \in BOOLEAN : \E emptyMessage \in EmptyMessages :
          props = [DefaultProps EXCEPT !.loading = loading,
                                       !.emptyMessage = emptyMessage]
    /\ InitComponent
    /\ inputField = DefaultField

NextView ==
    \/ \E loading \in BOOLEAN : setLoading(loading)
    \/ \E columnKey \in ColumnKeys : handleSort(columnKey)
    \/ \E i \in 1..MaxLen : handleRowClick(i)

SpecView == InitView /\ [][NextView]_vars

(***************************************************************************)
(* The selectable table under an owner that picks the rowKey prop: the     *)
(* default attribute 'id', the attribute 'name', or a function.            *)
(***************************************************************************)
RowKeyProps == {AttributeKey("id"), AttributeKey("name"), FunctionKey}

InitKeys ==
    /\ \E n \in 0..MaxLen : \E rows \in [1..n -> Records] :
          /\ DistinctIds(rows)
          /\ data = rows
    /\ \E rowKey \in RowKeyProps : props = [DefaultProps EXCEPT !.rowKey = rowKey]
    /\ InitComponent
    /\ inputField = DefaultField

NextKeys ==
    \/ \E columnKey \in ColumnKeys : handleSort(columnKey)
    \/ handleSelectAll
    \/ \E i \in 1..MaxLen : handleRowSelect(i)

SpecKeys == InitKeys /\ [][NextKeys]_vars

(***************************************************************************)
(* The selectable table under an owner that replaces the record sequence   *)
(* (as the stories' owner does when it deletes the selected users): the    *)
(* memoised rows are recomputed, the component's state cells are kept.     *)
(***************************************************************************)
\* checked={selectedRows.size === sortedData.length && sortedData.length > 0}
HeaderChecked ==
    Cardinality(selectedRows) = Len(sortedData) /\ Len(sortedData) > 0

\* The owner keeps the rows of the latest onRowSelect call and offers the
\* delete button while that list is not empty; the delete passes the table
\* the records whose id is not among the ids of the list, and empties the
\* list (after which a further delete would remove nothing).
handleDeleteSelected ==
    LET selectedIds == {reported.rows[i].id : i \in 1..Len(reported.rows)}
        users == SelectSeq(data, LAMBDA user : user.id \notin selectedIds)
    IN  /\ Len(reported.rows) > 0
        /\ users # data
        /\ data' = users
        /\ sortedData' = SortedDataOf(users, sortState, engine)
        /\ lastOp' = Op("handleDeleteSelected", NoKey, -1, selectedRows, 0)
        /\ clicked' = <<>>
        /\ UNCHANGED <<engine, sortState, selectedRows, reported, streak, props,
                       inputField>>

NextOwner ==
    \/ \E columnKey \in ColumnKeys : handleSort(columnKey)
    \/ handleSelectAll
    \/ \E i \in 1..MaxLen : handleRowSelect(i)
    \/ handleDeleteSelected

SpecOwner == Init /\ [][NextOwner]_vars

(***************************************************************************)
(* InputField.  The owner passes value (undefined for an uncontrolled      *)
(* field), type, showClearButton, loading and disabled; the component      *)
(* keeps inputValue and showPassword.  A controlled field's owner may      *)
(* re-render it with any value, whether or not a change was reported.      *)
(***************************************************************************)
TableVars == <<data, engine, sortState, sortedData, selectedRows, reported, lastOp,
               streak, props, clicked>>

EmptyString == Str(<<>>)

FieldValues == {EmptyString, Str(<<"x">>), Str(<<"x", "y">>)}

FieldTypes == {"text", "password"}

\* Mutant: value || inputValue, which passes over an empty value.
DisplayedValue_Truthy(f) ==
    IF f.value # Undefined /\ f.value # EmptyString THEN f.value ELSE f.inputValue

\* value !== undefined ? value : inputValue: the text in the input element.
DisplayedValue(f) == IF f.value # Undefined THEN f.value ELSE f.inputValue

\* Mutant: loading does not disable the input element.
InputDisabled_DisabledOnly(f) == f.disabled

\* disabled={disabled || loading} on the input element.
InputDisabled(f) == f.disabled \/ f.loading

\* showClearButton && inputValue && !loading: the clear button is rendered.
ClearButtonShown(f) ==
    f.showClearButton /\ Len(f.inputValue.s) > 0 /\ ~f.loading

\* isPassword && !loading: the password toggle is rendered.
PasswordToggleShown(f) == f.type = "password" /\ ~f.loading

\* (showClearButton && inputValue) || isPassword || loading: the container
\* of the icons is rendered.
IconsShown(f) ==
    (f.showClearButton /\ Len(f.inputValue.s) > 0) \/ f.type = "password" \/ f.loading

\* loading && <Loader2 ... />, inside the icons container.
LoaderShown(f) == IconsShown(f) /\ f.loading

\* isPassword ? (showPassword ? 'text' : 'password') : type
ActualType(f) ==
    IF f.type = "password"
    THEN (IF f.showPassword THEN "text" ELSE "password")
    ELSE f.type

\* The truthiness of an optional string prop: undefined and '' are falsy.
Truthy(text) == text.t = "str" /\ Len(text.s) > 0

HelperTexts == {Undefined, EmptyString, Str(<<"h">>)}

ErrorMessages == {Undefined, EmptyString, Str(<<"e">>)}

\* (helperText || errorMessage) ? `${inputId}-description` : undefined: the
\* input's aria-describedby is set.
DescribedBy(f) == Truthy(f.helperText) \/ Truthy(f.errorMessage)

\* (helperText || errorMessage) && <p ...>: the description paragraph is
\* rendered.
DescriptionShown(f) == Truthy(f.helperText) \/ Truthy(f.errorMessage)

\* Mutant: helperText || errorMessage.
DescriptionText_HelperFirst(f) ==
    IF Truthy(f.helperText) THEN f.helperText ELSE f.errorMessage

\* {errorMessage || helperText}: the text of the description paragraph.
DescriptionText(f) ==
    IF Truthy(f.errorMessage) THEN f.errorMessage ELSE f.helperText

InitField ==
    /\ data = <<>>
    /\ props = DefaultProps
    /\ InitComponent
    /\ \E value \in FieldValues \cup {Undefined} : \E type \in FieldTypes :
       \E showClearButton, loading, disabled \in BOOLEAN :
       \E helperText \in HelperTexts : \E errorMessage \in ErrorMessages :
          inputField =
              [InputFieldOf(value, type, showClearButton, loading, disabled)
                  EXCEPT !.helperText = helperText, !.errorMessage = errorMessage]

\* An edit in the input element that leaves newValue in it.
handleChange(newValue) ==
    /\ ~InputDisabled(inputField)
    /\ newValue # DisplayedValue(inputField)
    /\ inputField' = [inputField EXCEPT !.inputValue = newValue,
                                        !.op = "handleChange",
                                        !.changes = <<newValue>>]
    /\ UNCHANGED TableVars

\* Mutant: the field is emptied without a report to the owner.
handleClear_Silent ==
    /\ ClearButtonShown(inputField)
    /\ ~inputField.disabled
    /\ inputField' = [inputField EXCEPT !.inputValue = EmptyString,
                                        !.op = "handleClear",
                                        !.changes = <<>>]
    /\ UNCHANGED TableVars

\* A click on the clear button, which is there when rendered and not disabled.
handleClear ==
    /\ ClearButtonShown(inputField)
    /\ ~inputField.disabled
    /\ inputField' = [inputField EXCEPT !.inputValue = EmptyString,
                                        !.op = "handleClear",
                                        !.changes = <<EmptyString>>]
    /\ UNCHANGED TableVars

\* Mutant: the toggle only ever reveals.
togglePasswordVisibility_OneWay ==
    /\ PasswordToggleShown(inputField)
    /\ ~inputField.disabled
    /\ inputField' = [inputField EXCEPT !.showPassword = TRUE,
                                        !.op = "togglePasswordVisibility",
                                        !.changes = <<>>]
    /\ UNCHANGED TableVars

\* Mutant: the toggle button is not disabled with the field.
togglePasswordVisibility_IgnoresDisabled ==
    /\ PasswordToggleShown(inputField)
    /\ inputField' = [inputField EXCEPT !.showPassword = ~inputField.showPassword,
                                        !.op = "togglePasswordVisibility",
                                        !.changes = <<>>]
    /\ UNCHANGED TableVars

\* A click on the password toggle, which is there when rendered and not
\* disabled.
togglePasswordVisibility ==
    /\ PasswordToggleShown(inputField)
    /\ ~inputField.disabled
    /\ inputField' = [inputField EXCEPT !.showPassword = ~inputField.showPassword,
                                        !.op = "togglePasswordVisibility",
                                        !.changes = <<>>]
    /\ UNCHANGED TableVars

\* The owner of a controlled field renders it with another value.
setValue(value) ==
    /\ inputField.value # Undefined
    /\ value # inputField.value
    /\ inputField' = [inputField EXCEPT !.value = value,
                                        !.op = "setValue",
                                        !.changes = <<>>]
    /\ UNCHANGED TableVars

\* The owner renders the field with other loading and disabled flags.
setFieldFlags(loading, disabled) ==
    /\ <<loading, disabled>> # <<inputField.loading, inputField.disabled>>
    /\ inputField' = [inputField EXCEPT !.loading = loading,
                                        !.disabled = disabled,
                                        !.op = "setFieldFlags",
                                        !.changes = <<>>]
    /\ UNCHANGED TableVars

NextField ==
    \/ \E newValue \in FieldValues : handleChange(newValue)
    \/ handleClear
    \/ togglePasswordVisibility
    \/ \E value \in FieldValues : setValue(value)
    \/ \E loading, disabled \in BOOLEAN : setFieldFlags(loading, disabled)

SpecField == InitField /\ [][NextField]_vars

(***************************************************************************)
(* Vocabulary of the properties.                                           *)
(***************************************************************************)
Sorted == sortState.direction # NoDirection

\* The sort-field value of the row displayed at position i.
SortValue(i) == Field(sortedData[i], FindColumn(sortState.key).dataIndex)

\* Every record of the input has an identifier (distinct, by DistinctIds).
AllIdsPresent == \A i \in 1..Len(data) : ~IsNullish(data[i].id)

\* The row displayed at position i is the only one with its identifier.
OnlyRowWithItsKey(i) ==
    \A j \in 1..Len(sortedData) :
        j # i => getRowKey(sortedData[j], j - 1) # getRowKey(sortedData[i], i - 1)

\* The positions of the displayed rows whose identifier is in keys.
PositionsIn(keys) ==
    {i \in 1..Len(sortedData) : getRowKey(sortedData[i], i - 1) \in keys}

\* list holds exactly the displayed rows whose identifier is in keys, in
\* display order.
IsDisplayedSelection(list, keys) ==
    LET pos == PositionsIn(keys)
    IN  /\ Len(list) = Cardinality(pos)
        /\ \A i \in pos : list[Cardinality({j \in pos : j < i}) + 1] = sortedData[i]

\* The order of two non-null values that the sort is documented to use.
ValueOrder(x, y) ==
    IF x.t = "num" /\ y.t = "num" THEN x.n - y.n
    ELSE IF x.t = "str" /\ y.t = "str" THEN LocaleCompare(x.s, y.s)
    ELSE LocaleCompare(JsString(x), JsString(y))

\* C1: activating the header of one sortable column again and again, from
\* the unsorted state, gives ascending on that column after the first
\* activation, descending on it after the second and unsorted after the
\* third, and then the same again: no other sort state is reached.
C1_SortCycle ==
    streak.key # NoKey =>
        /\ streak.n = 1 => sortState = [key |-> streak.key, direction |-> "asc"]
        /\ streak.n = 2 => sortState = [key |-> streak.key, direction |-> "desc"]
        /\ streak.n = 3 => sortState = Unsorted

C1_Witness == streak.n = 3 /\ lastOp.op = "handleSort" /\ Len(data) >= 2

\* C2: three consecutive activations of a sortable column's header, from
\* the unsorted state, display the rows in the order of the input again.
C2_CycleClosure == streak.n = 3 => sortedData = data

C2_Witness ==
    /\ streak.n = 3
    /\ SortedDataOf(data, [key |-> streak.key, direction |-> "asc"], engine) # data
    /\ SortedDataOf(data, [key |-> streak.key, direction |-> "desc"], engine) # data

\* C3: the header checkbox selects every displayed row when not all
\* displayed rows are selected, and clears the selection when all of them
\* are selected already.
C3_SelectAllToggle ==
    lastOp.op = "handleSelectAll" =>
        IF RowKeys(sortedData) \subseteq lastOp.before
        THEN selectedRows = {}
        ELSE selectedRows = RowKeys(sortedData)

\* C4 as stated: every selection change reports the displayed records whose
\* identifier is selected, in display order, and toggling one row from the
\* empty selection reports exactly that one record.
C4_ReportsSelectionOriginal ==
    /\ lastOp.op \in {"handleSelectAll", "handleRowSelect"} =>
          /\ lastOp.calls = 1
          /\ reported.called
          /\ IsDisplayedSelection(reported.rows, selectedRows)
    /\ (lastOp.op = "handleRowSelect" /\ lastOp.before = {}) =>
          reported.rows = <<sortedData[lastOp.index + 1]>>

\* C4 as amended: every selection change reports the displayed records whose
\* identifier is selected, in display order; toggling one row from the empty
\* selection reports the displayed records that have that row's identifier,
\* which is that one record when no other displayed row has its identifier.
C4_ReportsSelection ==
    /\ lastOp.op \in {"handleSelectAll", "handleRowSelect"} =>
          /\ lastOp.calls = 1
          /\ reported.called
          /\ IsDisplayedSelection(reported.rows, selectedRows)
    /\ (lastOp.op = "handleRowSelect" /\ lastOp.before = {}) =>
          LET i == lastOp.index + 1
          IN  /\ IsDisplayedSelection(reported.rows, {getRowKey(sortedData[i], i - 1)})
              /\ OnlyRowWithItsKey(i) => reported.rows = <<sortedData[i]>>

C4_Witness ==
    /\ lastOp.op = "handleRowSelect"
    /\ sortedData # data
    /\ Len(reported.rows) = 2
    /\ reported.rows = sortedData

\* C5: toggling a row's checkbox flips the membership of that row's
\* identifier and of no other identifier, and toggling the same row twice in
\* a row gives back the selection set from before the first toggle.
C5_RowToggle ==
    /\ [](lastOp.op = "handleRowSelect" =>
            LET i == lastOp.index + 1
                key == getRowKey(sortedData[i], i - 1)
            IN  /\ (key \in selectedRows) <=> (key \notin lastOp.before)
                /\ selectedRows \ {key} = lastOp.before \ {key})
    /\ [][(/\ lastOp.op = "handleRowSelect"
           /\ lastOp'.op = "handleRowSelect"
           /\ lastOp'.index = lastOp.index) => selectedRows' = lastOp.before]_vars

C5_Witness ==
    /\ lastOp.op = "handleRowSelect"
    /\ lastOp.before # {}
    /\ Cardinality(selectedRows) < Cardinality(lastOp.before)
    /\ selectedRows # {}

\* C6: when every record has an identifier of its own, the selection set is
\* at all times the set of identifiers of the records last reported through
\* onRowSelect, and is empty while nothing has been reported.
C6_SelectionMatchesReport ==
    AllIdsPresent =>
        /\ selectedRows = {reported.rows[i].id : i \in 1..Len(reported.rows)}
        /\ ~reported.called => selectedRows = {}

C6_Witness ==
    /\ AllIdsPresent
    /\ lastOp.op = "handleSort"
    /\ sortedData # data
    /\ Cardinality(selectedRows) = 1
    /\ reported.called

\* C7: whenever a column is sorted, ascending or descending, no displayed
\* row with a null or missing sort value comes before a displayed row with a
\* non-null sort value.
C7_NullsLast ==
    Sorted =>
        \A i, j \in 1..Len(sortedData) :
            (i < j /\ IsNullish(SortValue(i))) => IsNullish(SortValue(j))

C7_Witness ==
    /\ sortState.direction = "desc"
    /\ Len(data) >= 3
    /\ IsNullish(Field(data[1], FindColumn(sortState.key).dataIndex))
    /\ IsNullish(Field(data[2], FindColumn(sortState.key).dataIndex))
    /\ ~IsNullish(Field(data[3], FindColumn(sortState.key).dataIndex))

\* C8: on a column whose values are strings (or null, or missing), the rows
\* with a string are displayed in ascending locale order after the first
\* activation of its header and in descending locale order after the second.
C8_StringColumnOrder ==
    (/\ streak.n \in {1, 2}
     /\ Sorted
     /\ \A i \in 1..Len(sortedData) :
           SortValue(i).t = "str" \/ IsNullish(SortValue(i))) =>
        \A i, j \in 1..Len(sortedData) :
            (i < j /\ SortValue(i).t = "str" /\ SortValue(j).t = "str") =>
                IF streak.n = 1
                THEN LocaleCompare(SortValue(i).s, SortValue(j).s) <= 0
                ELSE LocaleCompare(SortValue(i).s, SortValue(j).s) >= 0

C8_Witness ==
    /\ streak.n = 2
    /\ Sorted
    /\ Len(data) >= 3
    /\ \A i \in 1..Len(sortedData) : SortValue(i).t = "str"
    /\ sortedData # data
    /\ \E i, j \in 1..Len(sortedData) :
          /\ SortValue(i).s = <<"B", "o", "b">>
          /\ SortValue(j).s = <<"b", "o", "b">>

\* C9: in an ascending sort every two adjacent displayed rows with non-null
\* sort values are in non-decreasing order (by numeric difference for two
\* numbers, by locale order for two strings, by locale order of the string
\* forms otherwise); in a descending sort they are in non-increasing order.
C9_AdjacentOrder ==
    Sorted =>
        \A i \in 1..(Len(sortedData) - 1) :
            (~IsNullish(SortValue(i)) /\ ~IsNullish(SortValue(i + 1))) =>
                IF sortState.direction = "asc"
                THEN ValueOrder(SortValue(i), SortValue(i + 1)) <= 0
                ELSE ValueOrder(SortValue(i), SortValue(i + 1)) >= 0

C9_Witness ==
    /\ sortState = [key |-> "age", direction |-> "asc"]
    /\ sortedData # data
    /\ \E i, j, k \in 1..Len(sortedData) :
          /\ SortValue(i) = Num(9)
          /\ SortValue(j) = Num(10)
          /\ SortValue(k).t = "str"

\* C10: sorting is stable: in either direction, two displayed rows whose
\* sort values compare equal are in the order they have in the input.
C10_Stable ==
    Sorted =>
        \A i, j \in 1..Len(sortedData) :
            (/\ i < j
             /\ ~IsNullish(SortValue(i))
             /\ ~IsNullish(SortValue(j))
             /\ ValueOrder(SortValue(i), SortValue(j)) = 0) =>
                sortedData[i].id.n < sortedData[j].id.n

\* C11: whenever the sort direction is none, at the start and after a sort
\* cycle has come back to none, the displayed row sequence is the input
\* sequence, element by element.
C11_UnsortedShowsInput ==
    sortState.direction = NoDirection =>
        /\ Len(sortedData) = Len(data)
        /\ \A i \in 1..Len(data) : sortedData[i] = data[i]

C11_Witness ==
    /\ sortState.direction = NoDirection
    /\ lastOp.op = "handleSort"
    /\ streak.key = "name"
    /\ Len(data) >= 3
    /\ SortedDataOf(data, [key |-> "name", direction |-> "desc"], engine) # data

\* C12: activating the header of a column that is not sortable leaves the
\* sort state, the displayed order and the selection set as they were.
C12_NonSortableNoOp ==
    [][(/\ lastOp'.op = "handleSort"
        /\ \A i \in 1..Len(Columns) :
              Columns[i].key = lastOp'.key => ~Columns[i].sortable) =>
            UNCHANGED <<sortState, sortedData, selectedRows>>]_vars

C12_Witness ==
    /\ lastOp.op = "handleSort"
    /\ lastOp.key = "email"
    /\ Sorted
    /\ sortedData # data
    /\ selectedRows # {}

\* C13: at most one column is sorted at a time: the sort state is either no
\* column with no direction, or the key of one sortable column with the
\* direction ascending or descending.
C13_OneSortColumn ==
    \/ sortState.key = NoKey /\ sortState.direction = NoDirection
    \/ /\ sortState.direction \in {"asc", "desc"}
       /\ \E i \in 1..Len(Columns) :
             Columns[i].key = sortState.key /\ Columns[i].sortable

C13_Witness ==
    /\ sortState = [key |-> "age", direction |-> "desc"]
    /\ lastOp.op = "handleSort"
    /\ lastOp.key = "email"
    /\ selectedRows = {}

\* C14: a click on a row that does not originate on a checkbox calls
\* onRowClick exactly once, with the clicked record and its index in the
\* displayed (sorted) order; a click that originates on a row's checkbox
\* does not call onRowClick and changes nothing but the selection.
C14_RowClick ==
    /\ [](lastOp.op = "handleRowClick" =>
            /\ Len(clicked) = 1
            /\ clicked[1].index = lastOp.index
            /\ clicked[1].record = sortedData[lastOp.index + 1])
    /\ [](lastOp.op = "handleRowSelect" => clicked = <<>>)
    /\ [][lastOp'.op = "handleRowSelect" =>
            UNCHANGED <<data, sortState, sortedData>>]_vars

C14_Witness ==
    /\ lastOp.op = "handleRowClick"
    /\ sortedData # data
    /\ Len(clicked) = 1
    /\ clicked[1].index = 0
    /\ clicked[1].record = data[2]
    /\ selectedRows # {}

\* What is on screen in the current state.
View == Presentation(props.loading, data, props.emptyMessage)

\* C15: the presentation is chosen by strict priority: the busy placeholder
\* when loading is set, whatever the data; otherwise the empty-state message
\* (the configured one, or 'No data available') when data is empty;
\* otherwise the table.  Exactly one of the three is shown in every state.
C15_Presentation ==
    /\ View.kind \in {"loading", "empty", "table"}
    /\ View.kind = "loading" <=> props.loading
    /\ View.kind = "empty" <=> (~props.loading /\ Len(data) = 0)
    /\ View.kind = "table" <=> (~props.loading /\ Len(data) > 0)
    /\ View.kind = "empty" =>
          IF props.emptyMessage = Undefined
          THEN View.text = DefaultEmptyMessage
          ELSE View.text = props.emptyMessage

C15_Witness ==
    /\ lastOp.op = "setLoading"
    /\ ~props.loading
    /\ Len(data) = 0
    /\ props.emptyMessage # Undefined
    /\ View.text = props.emptyMessage

\* The identity of the record displayed at 0-based position index, as the
\* rowKey prop defines it.
Identity(record, index) ==
    IF props.rowKey.kind = "function" THEN RowKeyFunction(record)
    ELSE LET value == Field(record, props.rowKey.attribute)
         IN  IF value # Null /\ value # Undefined THEN value ELSE Num(index)

\* C16: the identity of a row is the result of the rowKey function when
\* rowKey is a function; otherwise it is the value of the rowKey attribute
\* ('id' by default) when that value is neither null nor undefined, and the
\* row's position in the displayed order when it is.  The selection
\* handlers add and remove exactly these identities.
C16_RowIdentity ==
    /\ lastOp.op = "handleRowSelect" =>
          LET i == lastOp.index + 1
              id == Identity(sortedData[i], i - 1)
          IN  /\ (id \in selectedRows) <=> (id \notin lastOp.before)
              /\ selectedRows \ {id} = lastOp.before \ {id}
    /\ (lastOp.op = "handleSelectAll" /\ selectedRows # {}) =>
          selectedRows = {Identity(sortedData[i], i - 1) : i \in 1..Len(sortedData)}

C16_Witness ==
    /\ lastOp.op = "handleRowSelect"
    /\ props.rowKey = FunctionKey
    /\ sortedData # data
    /\ lastOp.index = 1
    /\ selectedRows = {RowKeyFunction(data[1])}

TableOps == {"handleSort", "handleSelectAll", "handleRowSelect", "handleRowClick"}

\* C18: no operation of the table (sort activation, row toggle, header
\* toggle, row click) changes the records or the order of the input
\* sequence that the owner supplied.
C18_InputUntouched ==
    [][lastOp'.op \in TableOps =>
          /\ Len(data') = Len(data)
          /\ \A i \in 1..Len(data) : data'[i] = data[i]]_vars

C18_Witness ==
    /\ lastOp.op = "handleSort"
    /\ sortState.direction = "desc"
    /\ sortedData # data
    /\ reported.called
    /\ Cardinality(selectedRows) = 2

\* C19: the field shows the clear affordance exactly when showClearButton is
\* set, the value in the field is not empty and the field is not loading,
\* also for a controlled field whose owner changes the value without an
\* edit or does not apply a reported change.
C19_ClearShown ==
    ClearButtonShown(inputField) <=>
        /\ inputField.showClearButton
        /\ DisplayedValue(inputField) # EmptyString
        /\ ~inputField.loading

\* C20: activating the clear affordance resets the field's value to the
\* empty string (the text in an uncontrolled field is then empty; a
\* controlled field shows what its owner passes) and calls onChange exactly
\* once, with the target value ''.
C20_ClearReports ==
    inputField.op = "handleClear" =>
        /\ inputField.inputValue = EmptyString
        /\ inputField.value = Undefined => DisplayedValue(inputField) = EmptyString
        /\ Len(inputField.changes) = 1
        /\ inputField.changes[1] = EmptyString

C20_Witness ==
    /\ inputField.op = "handleClear"
    /\ inputField.value = Undefined
    /\ inputField.type = "password"
    /\ inputField.showPassword

\* A user interaction is a step of handleChange, handleClear or
\* togglePasswordVisibility; the other steps are the owner's renders.
OwnerFieldOps == {"setValue", "setFieldFlags"}

\* C21: the field displays the owner's value whenever one is supplied and
\* its own internal value otherwise; every edit (possible only in a field
\* that is enabled and not loading) is reported through onChange, once,
\* with the new value, which an uncontrolled field then displays.
C21_ValueBinding ==
    /\ inputField.value # Undefined =>
          DisplayedValue(inputField) = inputField.value
    /\ inputField.value = Undefined =>
          DisplayedValue(inputField) = inputField.inputValue
    /\ inputField.op = "handleChange" =>
          /\ ~inputField.disabled /\ ~inputField.loading
          /\ Len(inputField.changes) = 1
          /\ inputField.changes[1] = inputField.inputValue

C21_Witness ==
    /\ inputField.op = "handleChange"
    /\ inputField.value = EmptyString
    /\ inputField.changes = <<Str(<<"x", "y">>)>>
    /\ DisplayedValue(inputField) = EmptyString

\* C22: while the field is loading or disabled no edit changes its value
\* or is reported to the owner; while it is loading neither the password
\* toggle nor the clear affordance is rendered and the busy indicator is.
C22_LoadingDisabled ==
    /\ [](inputField.loading =>
            /\ ~ClearButtonShown(inputField)
            /\ ~PasswordToggleShown(inputField)
            /\ LoaderShown(inputField))
    /\ [][(inputField.loading \/ inputField.disabled) =>
            /\ inputField'.op # "handleChange"
            /\ inputField'.inputValue = inputField.inputValue
            /\ inputField'.changes = <<>>]_vars

C22_Witness ==
    /\ inputField.loading
    /\ ~inputField.disabled
    /\ inputField.op = "setFieldFlags"
    /\ inputField.type = "password"
    /\ inputField.showClearButton
    /\ inputField.value = Undefined
    /\ inputField.inputValue = Str(<<"x">>)
    /\ LoaderShown(inputField)

\* The input element is rendered masked.
Masked == ActualType(inputField) = "password"

\* C23: a field of type password is rendered masked at first; every
\* activation of the reveal toggle flips the rendering between masked and
\* plain text (so two activations give masked again), leaves the value as
\* it was and reports nothing to the owner.
C23_PasswordToggle ==
    /\ []((inputField.type = "password" /\ inputField.op = "init") => Masked)
    /\ [][inputField'.op = "togglePasswordVisibility" =>
            /\ Masked' # Masked
            /\ inputField'.value = inputField.value
            /\ inputField'.inputValue = inputField.inputValue
            /\ inputField'.changes = <<>>]_vars

C23_Witness ==
    /\ inputField.type = "password"
    /\ inputField.op = "togglePasswordVisibility"
    /\ Masked
    /\ inputField.inputValue = Str(<<"x", "y">>)

\* C24: the description shows the error message whenever there is one (a
\* non-empty text), the helper text when there is only that, and the input
\* carries the reference to the description exactly when there is at least
\* one of the two.
C24_Description ==
    LET e == inputField.errorMessage
        h == inputField.helperText
        Present(text) == text # Undefined /\ text # EmptyString
    IN  /\ Present(e) =>
              DescriptionShown(inputField) /\ DescriptionText(inputField) = e
        /\ (Present(h) /\ ~Present(e)) =>
              DescriptionShown(inputField) /\ DescriptionText(inputField) = h
        /\ DescriptionShown(inputField) <=> (Present(e) \/ Present(h))
        /\ DescribedBy(inputField) <=> (Present(e) \/ Present(h))

C24_Witness ==
    /\ inputField.errorMessage = Str(<<"e">>)
    /\ inputField.helperText = Str(<<"h">>)
    /\ DescriptionText(inputField) = Str(<<"e">>)
    /\ DescribedBy(inputField)
    /\ inputField.op = "handleChange"

\* C30: while the field is disabled its clear affordance and its reveal
\* toggle cannot be activated: every step is a render by the owner, and
\* none changes the internal value, reports a change or changes the
\* masked/plain rendering, until the owner enables the field again.
C30_DisabledInert ==
    [][inputField.disabled =>
          /\ inputField'.op \in OwnerFieldOps
          /\ inputField'.inputValue = inputField.inputValue
          /\ inputField'.showPassword = inputField.showPassword
          /\ Masked' = Masked
          /\ inputField'.changes = <<>>]_vars

C30_Witness ==
    /\ inputField.disabled
    /\ ~inputField.loading
    /\ inputField.op = "setFieldFlags"
    /\ ClearButtonShown(inputField)
    /\ PasswordToggleShown(inputField)
    /\ inputField.showPassword

\* The records whose rows are displayed as selected.
ShownSelected == {sortedData[i] : i \in PositionsIn(selectedRows)}

\* C27: a sort activation leaves the selection set as it was and sends no
\* onRowSelect notification; when every record has an identifier of its
\* own, the records displayed as selected are the same before and after it.
C27_SortKeepsSelection ==
    [][lastOp'.op = "handleSort" =>
          /\ selectedRows' = selectedRows
          /\ reported' = reported
          /\ AllIdsPresent => ShownSelected' = ShownSelected]_vars

C27_Witness ==
    /\ lastOp.op = "handleSort"
    /\ AllIdsPresent
    /\ sortedData # data
    /\ selectedRows = {data[1].id}
    /\ ShownSelected = {sortedData[2]}
    /\ sortState.direction = "asc"

\* The number of times record occurs in rows.
Occurrences(rows, record) == Cardinality({i \in 1..Len(rows) : rows[i] = record})

\* C28: in every sort state the displayed rows are a permutation of the
\* input: the same length, and every record as many times as in the input.
C28_Permutation ==
    /\ Len(sortedData) = Len(data)
    /\ \A i \in 1..Len(data) :
          Occurrences(sortedData, data[i]) = Occurrences(data, data[i])

C28_Witness ==
    /\ sortState.direction = "desc"
    /\ Len(data) = 4
    /\ IsNullish(SortValue(4))
    /\ sortedData[4] = data[1]
    /\ sortedData[1] = data[4]

\* C29: activating the header of a sortable column while another column is
\* sorted, ascending or descending, makes the sort state that new column,
\* ascending: the column sorted before is no longer sorted.
C29_SwitchColumn ==
    [][(/\ lastOp'.op = "handleSort"
        /\ sortState.direction \in {"asc", "desc"}
        /\ lastOp'.key # sortState.key
        /\ \E i \in 1..Len(Columns) :
              Columns[i].key = lastOp'.key /\ Columns[i].sortable) =>
            /\ sortState'.key = lastOp'.key
            /\ sortState'.direction = "asc"]_vars

C29_Witness ==
    /\ lastOp.op = "handleSort"
    /\ sortState = [key |-> "age", direction |-> "asc"]
    /\ streak = NoStreak
    /\ Len(data) >= 2
    /\ sortedData # SortedDataOf(data, [key |-> "name", direction |-> "desc"], engine)

\* C25: the header checkbox is shown checked exactly when there are
\* displayed rows and the identifier of every displayed row is in the
\* selection set, also after the owner has supplied another record sequence
\* while rows were selected.
C25_HeaderChecked ==
    Rendered =>
        (HeaderChecked <=>
            /\ Len(sortedData) > 0
            /\ \A i \in 1..Len(sortedData) :
                  getRowKey(sortedData[i], i - 1) \in selectedRows)

\* C26: the selection set holds no identifier that belongs to no row of the
\* current record sequence, also after the owner has replaced the sequence
\* with one that lacks rows selected before.
C26_NoStaleSelection ==
    \A key \in selectedRows :
        \E i \in 1..Len(sortedData) : getRowKey(sortedData[i], i - 1) = key

====
